---- MODULE Spec2Model ----
(***************************************************************************)
(* Model of the incremental build orchestrator (mcbe-toolbox-lc/builder).  *)
(*                                                                         *)
(*   incl : one evaluation of testInclusion                (SpecIncl)      *)
(*   pk   : one PackBuilder driven build after build       (SpecDiff)      *)
(*   sys  : one BuildSystem with its attempts, pack builds, watcher,       *)
(*          debounce timer and rebuild() calls             (Spec)          *)
(***************************************************************************)
EXTENDS Integers, Sequences, FiniteSets, TLC

VARIABLES incl, pk, sys

vars == <<incl, pk, sys>>

(***************************************************************************)
(* Paths.  A path segment is a sequence of one-character strings, a path   *)
(* is a record [abs, segs]; its string form joins the segments with "/".   *)
(***************************************************************************)
P == <<"p">>
SRC == <<"s", "r", "c">>
SRCX == <<"s", "r", "c", "x">>
D == <<"d">>
DOT == <<".">>
DOTDOT == <<".", ".">>
AJ5 == <<"a", ".", "j", "s", "o", "n", "5">>
AJ == <<"a", ".", "j", "s", "o", "n">>
BPNG == <<"b", ".", "p", "n", "g">>

STAR == <<"*">>
GLOBSTAR == <<"*", "*">>

Abs(segs) == [abs |-> TRUE, segs |-> segs]
Rel(segs) == [abs |-> FALSE, segs |-> segs]

\* process.cwd(), the directory relative paths are resolved against
cwd == <<P>>

RECURSIVE normalize(_, _)
normalize(done, rest) ==
    IF rest = <<>> THEN done
    ELSE IF Head(rest) = DOT THEN normalize(done, Tail(rest))
    ELSE IF Head(rest) = DOTDOT
         THEN normalize(IF done = <<>> THEN <<>> ELSE SubSeq(done, 1, Len(done) - 1), Tail(rest))
    ELSE normalize(Append(done, Head(rest)), Tail(rest))

\* path.resolve: an absolute, normalised path (its segments)
resolve(path) ==
    normalize(<<>>, IF path.abs THEN path.segs ELSE cwd \o path.segs)

RECURSIVE toStr(_)
toStr(segs) ==
    IF segs = <<>> THEN <<>> ELSE <<"/">> \o Head(segs) \o toStr(Tail(segs))

\* String.prototype.startsWith on the string forms
startsWith(str, prefix) ==
    /\ Len(prefix) <= Len(str)
    /\ SubSeq(str, 1, Len(prefix)) = prefix

RECURSIVE commonLen(_, _)
commonLen(a, b) ==
    IF a = <<>> \/ b = <<>> \/ Head(a) # Head(b) THEN 0
    ELSE 1 + commonLen(Tail(a), Tail(b))

\* path.relative(from, to) of two resolved paths, as segments
relative(from, to) ==
    LET k == commonLen(from, to)
    IN  [i \in 1..(Len(from) - k) |-> DOTDOT] \o SubSeq(to, k + 1, Len(to))

dotted(seg) == seg # <<>> /\ seg[1] = "."

\* minimatch(relativePath, pattern): pattern parts are literal segments, * or **
RECURSIVE minimatch(_, _)
minimatch(file, pattern) ==
    IF pattern = <<>> THEN file = <<>>
    ELSE IF Head(pattern) = GLOBSTAR
         THEN \/ minimatch(file, Tail(pattern))
              \/ /\ file # <<>>
                 /\ ~dotted(Head(file))
                 /\ minimatch(Tail(file), pattern)
    ELSE IF file = <<>> THEN FALSE
    ELSE IF Head(pattern) = STAR
         THEN /\ Head(file) # <<>>
              /\ ~dotted(Head(file))
              /\ minimatch(Tail(file), Tail(pattern))
    ELSE /\ Head(file) = Head(pattern)
         /\ minimatch(Tail(file), Tail(pattern))

\* an optional string[]: undefined, or the list of its patterns
Undefined == [defined |-> FALSE, pats |-> <<>>]
List(pats) == [defined |-> TRUE, pats |-> pats]

some(list, file) == \E i \in 1..Len(list.pats) : minimatch(file, list.pats[i])

testInclusion(path, baseDir, include, exclude) ==
    LET fullPath == resolve(path)
        base == resolve(baseDir)
        relativePath == relative(base, fullPath)
        isExcluded == exclude.defined /\ some(exclude, relativePath)
        isIncluded == ~include.defined \/ some(include, relativePath)
    IN  IF ~startsWith(toStr(fullPath), toStr(base)) THEN FALSE
        ELSE IF isExcluded THEN FALSE
        ELSE isIncluded

(***************************************************************************)
(* SpecIncl: testInclusion applied to one input drawn from bounded sets.   *)
(***************************************************************************)
InclPaths ==
    { Abs(<<P, SRC, AJ>>), Abs(<<P, SRC, D, BPNG>>), Abs(<<P, SRC, D>>),
      Abs(<<P, SRCX, AJ>>), Abs(<<P, SRC, DOTDOT, SRCX, D, BPNG>>),
      Rel(<<SRC, AJ>>), Rel(<<D, BPNG>>) }

InclBases == { Abs(<<P, SRC>>), Rel(<<SRC>>), Abs(<<P, SRCX>>) }

InclIncludes ==
    { Undefined, List(<<>>), List(<<<<D, GLOBSTAR, STAR>>>>), List(<<<<STAR>>>>),
      List(<<<<GLOBSTAR, STAR>>>>), List(<<<<D, GLOBSTAR, STAR>>, <<AJ>>>>) }

InclExcludes ==
    { Undefined, List(<<>>), List(<<<<D, GLOBSTAR, STAR>>>>), List(<<<<AJ>>>>) }

InclIdle == [done |-> FALSE, path |-> Abs(<<>>), baseDir |-> Abs(<<>>),
             include |-> Undefined, exclude |-> Undefined, result |-> FALSE]

PkIdle == [op |-> "idle"]

SysIdle == [pc |-> "idle"]

InitIncl ==
    /\ incl \in [done : {FALSE}, path : InclPaths, baseDir : InclBases,
                 include : InclIncludes, exclude : InclExcludes, result : {FALSE}]
    /\ pk = PkIdle
    /\ sys = SysIdle

TestInclusion ==
    /\ ~incl.done
    /\ incl' = [incl EXCEPT !.done = TRUE,
                            !.result = testInclusion(incl.path, incl.baseDir,
                                                     incl.include, incl.exclude)]
    /\ UNCHANGED <<pk, sys>>

NextIncl == TestInclusion

SpecIncl == InitIncl /\ [][NextIncl]_vars

\* lies under the source root: the root's segments are a proper prefix of the path's
underRoot(path, baseDir) ==
    LET f == resolve(path)
        b == resolve(baseDir)
    IN  Len(b) < Len(f) /\ SubSeq(f, 1, Len(b)) = b

\* C9: a path is included iff (a) it lies under the source root, (b) it matches at
\* least one include glob, an absent or empty include list matching everything, and
\* (c) it matches none of the exclude globs.
C9_InclusionContract ==
    incl.done =>
        LET rel == relative(resolve(incl.baseDir), resolve(incl.path))
        IN  incl.result =
               ( /\ underRoot(incl.path, incl.baseDir)
                 /\ \/ ~incl.include.defined
                    \/ incl.include.pats = <<>>
                    \/ some(incl.include, rel)
                 /\ ~(incl.exclude.defined /\ some(incl.exclude, rel)) )

(***************************************************************************)
(* PackBuilder.  The source tree of the model holds three files and one    *)
(* directory, named by their path relative to srcDir; Segs gives each name *)
(* its segments.  A staged file is named by its path relative to outDir.   *)
(***************************************************************************)
srcDir == Abs(<<P, SRC>>)

PkFiles == { "a.json5", "a.json", "d/b.png" }

PkDirs == { "d" }

PkRoot == ""

Segs == [x \in PkFiles \cup PkDirs \cup {PkRoot} |->
            CASE x = "a.json5" -> <<AJ5>>
              [] x = "a.json" -> <<AJ>>
              [] x = "d/b.png" -> <<D, BPNG>>
              [] x = "d" -> <<D>>
              [] OTHER -> <<>>]

MaxStamp == 2

NoLimit == [defined |-> FALSE, paths |-> {}]
Limit(paths) == [defined |-> TRUE, paths |-> paths]

\* path.join(dir, entry), as an absolute path
srcPath(x) == Abs(srcDir.segs \o Segs[x])

\* the pack configurations of the model: include and exclude globs
PkConfigs ==
    << [include |-> Undefined, exclude |-> Undefined],
       [include |-> Undefined, exclude |-> List(<<<<AJ>>>>)],
       [include |-> List(<<<<D, GLOBSTAR, STAR>>>>), exclude |-> Undefined],
       [include |-> List(<<<<GLOBSTAR, STAR>>>>), exclude |-> Undefined] >>

\* testInclusion of every path of the universe, per configuration
Included ==
    [c \in 1..Len(PkConfigs) |->
        { x \in PkFiles \cup PkDirs :
            testInclusion(srcPath(x), srcDir, PkConfigs[c].include, PkConfigs[c].exclude) }]

shouldInclude(config, x) == x \in Included[config]

\* the directory an entry is listed in
Parent ==
    [x \in PkFiles \cup PkDirs |->
        CHOOSE d \in PkDirs \cup {PkRoot} : Segs[d] = SubSeq(Segs[x], 1, Len(Segs[x]) - 1)]

isFile(disk, x) == x \in PkFiles /\ disk[x] # 0

isDirectory(disk, x) ==
    x \in PkDirs /\ \E f \in PkFiles : disk[f] # 0 /\ Parent[f] = x

\* fs.readdir(dir) joined to dir: the entries of a directory, as paths
readdir(disk, dir) ==
    { x \in PkFiles \cup PkDirs : Parent[x] = dir /\ (isFile(disk, x) \/ isDirectory(disk, x)) }

\* the members of set s in the order sequence `order` lists them
seqOf(order, s) == SelectSeq(order, LAMBDA x : x \in s)

cacheKeys(cache) == { cache[i].filePath : i \in 1..Len(cache) }

cachedEntry(cache, file) ==
    CHOOSE e \in { cache[i] : i \in 1..Len(cache) } : e.filePath = file

RECURSIVE checkFileChanges(_, _, _, _)
\* the files of one directory, checked in the order their stat calls complete
checkFileChanges(files, lastCache, disk, acc) ==
    IF files = <<>> THEN acc
    ELSE LET filePath == Head(files)
             currentTimestamp == disk[filePath]
             change ==
                 IF filePath \notin cacheKeys(lastCache)
                 THEN << [type |-> "add", filePath |-> filePath] >>
                 ELSE IF cachedEntry(lastCache, filePath).timestamp # currentTimestamp
                 THEN << [type |-> "update", filePath |-> filePath] >>
                 ELSE <<>>
         IN  checkFileChanges(Tail(files), lastCache, disk,
                 [changes |-> acc.changes \o change,
                  newCache |-> Append(acc.newCache,
                                  [filePath |-> filePath, timestamp |-> currentTimestamp]),
                  currentFiles |-> acc.currentFiles \cup {filePath}])

RECURSIVE walk(_, _, _, _, _, _)
\* the while loop over dirSearchQueue
walk(dirSearchQueue, config, lastCache, disk, ctx, acc) ==
    IF dirSearchQueue = <<>> THEN acc
    ELSE LET dir == Head(dirSearchQueue)
             entries == { e \in readdir(disk, dir) : shouldInclude(config, e) }
             dirs == { e \in entries : isDirectory(disk, e) }
             files == { e \in entries :
                          /\ isFile(disk, e)
                          /\ (~ctx.limitCheckPaths.defined \/ e \in ctx.limitCheckPaths.paths) }
             pushed == seqOf(<<"d">>, dirs)
         IN  walk(Tail(dirSearchQueue) \o pushed, config, lastCache, disk, ctx,
                  checkFileChanges(seqOf(ctx.order, files), lastCache, disk, acc))

RECURSIVE removalsUnscoped(_, _, _)
removalsUnscoped(cache, ctx, currentFiles) ==
    IF cache = <<>> THEN <<>>
    ELSE (IF Head(cache).filePath \notin currentFiles
          THEN << [type |-> "remove", filePath |-> Head(cache).filePath] >>
          ELSE <<>>)
         \o removalsUnscoped(Tail(cache), ctx, currentFiles)

RECURSIVE removals(_, _, _)
\* the for-in loop over lastCache, in the cache's insertion order
removals(cache, ctx, currentFiles) ==
    IF cache = <<>> THEN <<>>
    ELSE LET filePath == Head(cache).filePath
         IN  IF ctx.limitCheckPaths.defined /\ filePath \notin ctx.limitCheckPaths.paths
             THEN <<>>
             ELSE (IF filePath \notin currentFiles
                   THEN << [type |-> "remove", filePath |-> filePath] >>
                   ELSE <<>>)
                  \o removals(Tail(cache), ctx, currentFiles)

detectSourceTreeChanges(config, lastCache, disk, ctx) ==
    LET acc == walk(<<PkRoot>>, config, lastCache, disk, ctx,
                    [changes |-> <<>>, newCache |-> <<>>, currentFiles |-> {}])
    IN  [changes |-> acc.changes \o removals(lastCache, ctx, acc.currentFiles),
         newCache |-> acc.newCache]

\* path.extname of a file name: from its last "." on
extname(name) ==
    LET dots == { i \in 2..Len(name) : name[i] = "." }
    IN  IF dots = {} THEN <<>>
        ELSE LET i == CHOOSE j \in dots : \A k \in dots : k <= j
             IN  SubSeq(name, i, Len(name))

JSON5EXT == <<".", "j", "s", "o", "n", "5">>
JSONCEXT == <<".", "j", "s", "o", "n", "c">>
JSONEXT == <<".", "j", "s", "o", "n">>

convertJson5(segs) ==
    LET ext == extname(segs[Len(segs)]) IN ext = JSONCEXT \/ ext = JSON5EXT

\* path.format of the parsed source path with the extension replaced
formatDest(segs) ==
    LET base == segs[Len(segs)]
        ext == extname(base)
        name == SubSeq(base, 1, Len(base) - Len(ext))
    IN  IF convertJson5(segs)
        THEN SubSeq(segs, 1, Len(segs) - 1) \o << name \o JSONEXT >>
        ELSE segs

\* the staged path of each source file, relative to outDir
DestPaths ==
    [f \in PkFiles |-> CHOOSE d \in PkFiles : Segs[d] = formatDest(Segs[f])]

getDestPath(file) == DestPaths[file]

PkDests == { getDestPath(f) : f \in PkFiles }

NoContent == [from |-> "", stamp |-> 0]

\* one applyFileChange, run to completion
applyFileChange(staged, disk, change) ==
    LET destPath == getDestPath(change.filePath)
    IN  IF change.type = "remove"
        THEN [staged EXCEPT ![destPath] = NoContent]
        ELSE [staged EXCEPT ![destPath] =
                 [from |-> change.filePath, stamp |-> disk[change.filePath]]]

RECURSIVE applyAll(_, _, _, _)
\* the file changes of one build, completing in the order `done` lists their files
applyAll(staged, disk, changes, done) ==
    IF done = <<>> THEN staged
    ELSE LET mine == { i \in 1..Len(changes) : changes[i].filePath = Head(done) }
             next == IF mine = {} THEN staged
                     ELSE applyFileChange(staged, disk, changes[CHOOSE i \in mine : TRUE])
         IN  applyAll(next, disk, changes, Tail(done))

\* the paths of a target directory, relative to it: those the pack can stage
\* and one that no build writes
TargetPaths == PkDests \cup { "old.txt" }

\* content a target directory holds from before the first build
Stale == [from |-> "stale", stamp |-> 0]

copyOutputMerged(staged, target) ==
    [d \in TargetPaths |->
        IF d \in DOMAIN staged /\ staged[d] # NoContent THEN staged[d] ELSE target[d]]

\* copyOutputToTargetDirs: each target is removed, recreated, and the staging
\* directory copied into it
copyOutputToTargetDirs(staged, target) ==
    [d \in TargetPaths |-> IF d \in DOMAIN staged THEN staged[d] ELSE NoContent]

executeBuildAlways(config, lastCache, disk, staged, target, ctx) ==
    LET d == detectSourceTreeChanges(config, lastCache, disk, ctx)
        out == applyAll(staged, disk, d.changes, ctx.done)
    IN  [changes |-> d.changes, hasNewCache |-> TRUE, newCache |-> d.newCache,
         staged |-> out, target |-> copyOutputToTargetDirs(out, target)]

executeBuild(config, lastCache, disk, staged, target, ctx) ==
    LET d == detectSourceTreeChanges(config, lastCache, disk, ctx)
        out == applyAll(staged, disk, d.changes, ctx.done)
    IN  IF Len(d.changes) <= 0
        THEN [changes |-> d.changes, hasNewCache |-> FALSE, newCache |-> <<>>,
              staged |-> staged, target |-> target]
        ELSE [changes |-> d.changes, hasNewCache |-> TRUE, newCache |-> d.newCache,
              staged |-> out, target |-> copyOutputToTargetDirs(out, target)]

\* PackBuilder.build: this.lastCache after executeBuild returned `result`
installCacheNever(lastCache, result) == lastCache

installCache(lastCache, result) ==
    IF result.hasNewCache THEN result.newCache ELSE lastCache

(***************************************************************************)
(* SpecDiff: one PackBuilder, built again and again while the source tree  *)
(* changes.  No token is signalled and no file operation fails here.       *)
(***************************************************************************)
\* the orders in which concurrent operations on the files of the universe complete
PkOrders == { <<"a.json5", "a.json", "d/b.png">>, <<"a.json", "a.json5", "d/b.png">> }

PkLimits == { NoLimit } \cup { Limit(s) : s \in SUBSET PkFiles }

NoBuild == [op |-> "fs", limit |-> NoLimit, changes |-> <<>>, oldCache |-> <<>>,
            repeat |-> FALSE, stagedSame |-> FALSE]

InitDiff ==
    /\ incl = InclIdle
    /\ sys = SysIdle
    /\ \E config \in 1..Len(PkConfigs), disk \in [PkFiles -> 0..MaxStamp] :
          pk = [config |-> config,
                disk |-> disk,
                lastCache |-> <<>>,
                staged |-> [d \in PkDests |-> NoContent],
                target |-> [d \in TargetPaths |-> Stale],
                built |-> FALSE,
                last |-> NoBuild]

\* scope l2 checks no file that scope l1 does not check
within(l2, l1) == ~l1.defined \/ (l2.defined /\ l2.paths \subseteq l1.paths)

\* PackBuilder.build(ctx), run to completion
build(p, ctx) ==
    LET result == executeBuild(p.config, p.lastCache, p.disk, p.staged, p.target, ctx)
    IN  [p EXCEPT
           !.lastCache = installCache(p.lastCache, result),
           !.staged = result.staged,
           !.target = result.target,
           !.built = TRUE,
           !.last = [op |-> "build",
                     limit |-> ctx.limitCheckPaths,
                     changes |-> result.changes,
                     oldCache |-> p.lastCache,
                     repeat |-> p.last.op = "build" /\ within(ctx.limitCheckPaths, p.last.limit),
                     stagedSame |-> result.staged = p.staged]]

\* the first build of a pack is the full one; rebuilds are scoped
PackBuild(limit, order, done) ==
    /\ limit.defined => pk.built
    /\ pk' = build(pk, [limitCheckPaths |-> limit, order |-> order, done |-> done])
    /\ UNCHANGED <<incl, sys>>

Build == \E limit \in PkLimits, order \in PkOrders, done \in PkOrders : PackBuild(limit, order, done)

\* the source tree changes: a file is written again, deleted or created
Touch ==
    \E f \in PkFiles, t \in 1..MaxStamp :
        /\ pk.disk[f] # 0
        /\ pk.disk[f] # t
        /\ pk' = [pk EXCEPT !.disk[f] = t, !.last = NoBuild]
        /\ UNCHANGED <<incl, sys>>

Delete ==
    \E f \in PkFiles :
        /\ pk.disk[f] # 0
        /\ pk' = [pk EXCEPT !.disk[f] = 0, !.last = NoBuild]
        /\ UNCHANGED <<incl, sys>>

Create ==
    \E f \in PkFiles, t \in 1..MaxStamp :
        /\ pk.disk[f] = 0
        /\ pk' = [pk EXCEPT !.disk[f] = t, !.last = NoBuild]
        /\ UNCHANGED <<incl, sys>>

NextDiff == Build \/ Touch \/ Delete \/ Create

SpecDiff == InitDiff /\ [][NextDiff]_vars

\* the files of the source tree that pass the inclusion rules of the pack
includedOnDisk(p) == { f \in PkFiles : p.disk[f] # 0 /\ f \in Included[p.config] }

changesOf(changes, f, type) ==
    { i \in 1..Len(changes) : changes[i].filePath = f /\ changes[i].type = type }

\* C3: after every successful build, full or scope-limited, the cache holds
\* exactly the files now under the source tree that pass the inclusion rules,
\* and after a scope-limited build every entry of the old cache outside the
\* scope set is still in the cache with its old timestamp.
C3_CacheExact ==
    pk.last.op = "build" =>
        /\ cacheKeys(pk.lastCache) = includedOnDisk(pk)
        /\ pk.last.limit.defined =>
              \A i \in 1..Len(pk.last.oldCache) :
                  pk.last.oldCache[i].filePath \notin pk.last.limit.paths =>
                      \E j \in 1..Len(pk.lastCache) : pk.lastCache[j] = pk.last.oldCache[i]

\* C7: in a full diff every included file yields at most one change: an add
\* iff it is on disk and not in the old cache, an update iff it is on disk and
\* cached with another timestamp, a remove iff it is cached and not on disk,
\* nothing when its timestamp is unchanged; after a remove the staged file is
\* absent.
C7_FullDiffClassification ==
    (pk.last.op = "build" /\ ~pk.last.limit.defined) =>
        \A f \in Included[pk.config] \cap PkFiles :
            LET ch == pk.last.changes
                old == pk.last.oldCache
                onDisk == pk.disk[f] # 0
                cached == f \in cacheKeys(old)
                adds == changesOf(ch, f, "add")
                updates == changesOf(ch, f, "update")
                removes == changesOf(ch, f, "remove")
            IN  /\ Cardinality(adds \cup updates \cup removes) <= 1
                /\ (adds # {}) = (onDisk /\ ~cached)
                /\ (updates # {}) =
                      (onDisk /\ cached /\ cachedEntry(old, f).timestamp # pk.disk[f])
                /\ (removes # {}) = (cached /\ ~onDisk)
                /\ (removes # {}) => pk.staged[getDestPath(f)] = NoContent

\* C8: a build run directly after a build of the same or a wider scope, with
\* no change of the source tree between the two, issues no add, update or
\* remove and leaves the staged tree as it was.
C8_Idempotent ==
    (pk.last.op = "build" /\ pk.last.repeat) =>
        /\ pk.last.changes = <<>>
        /\ pk.last.stagedSame

\* a second run after a build that staged files and filled the cache
C8_Witness ==
    /\ pk.last.op = "build"
    /\ pk.last.repeat
    /\ pk.last.limit.defined
    /\ Len(pk.lastCache) >= 2
    /\ \E d \in PkDests : pk.staged[d] # NoContent

(***************************************************************************)
(* BuildSystem.  One record, sys, holds the fields of the BuildSystem, the *)
(* temporary staging root, the watcher and its debounce timer, the call of *)
(* runAndClose, every build attempt with the pack builds it started, and   *)
(* every call of rebuild.  Each action is one turn of the event loop: the  *)
(* completion of an awaited operation together with all the synchronous    *)
(* code and promise continuations that run before the next await.          *)
(***************************************************************************)
Packs == { "bp", "rp" }

EventPaths == { "a.json" }

MaxDirs == 1

MaxChanges == 1

MaxRebuilds == 2

NoOutcome == [name |-> "none", cause |-> "none"]

Ok == [name |-> "ok", cause |-> "none"]

\* what signal.throwIfAborted() throws
AbortError == [name |-> "AbortError", cause |-> "signal"]

\* new Error(...): a generic failure; cause records what made the code raise it
Failure(cause) == [name |-> "Error", cause |-> cause]

Finished(pc, error) == [pc |-> pc, then |-> "none", error |-> error]

closeUnguarded(s) ==
    LET a == s.currentController
        s1 == [s EXCEPT !.isClosed = TRUE, !.cleanup = "pending"]
        s2 == IF a # 0 THEN [s1 EXCEPT !.attempts[a].aborted = TRUE] ELSE s1
    IN  IF s.closeResolve
        THEN [s2 EXCEPT !.closeResolve = FALSE, !.watcher = "closing"]
        ELSE s2

\* BuildSystem.close()
close(s) ==
    IF s.isClosed THEN s
    ELSE LET a == s.currentController
             s1 == [s EXCEPT !.isClosed = TRUE, !.cleanup = "pending"]
             s2 == IF a # 0 THEN [s1 EXCEPT !.attempts[a].aborted = TRUE] ELSE s1
         IN  IF s.closeResolve
             THEN [s2 EXCEPT !.closeResolve = FALSE, !.watcher = "closing"]
             ELSE s2

\* `await this.close()` inside runAndClose, and what runAndClose does after it
closeThen(s, then, error) ==
    IF s.isClosed THEN [s EXCEPT !.run = Finished(then, error)]
    ELSE [close(s) EXCEPT !.run = [pc |-> "closing", then |-> then, error |-> error]]

\* BuildSystem.watch()
watch(s) ==
    [s EXCEPT !.watcher = "open",
              !.closeResolve = TRUE,
              !.changedFiles = {},
              !.burst = {},
              !.debounce = [timer |-> FALSE, aborted |-> FALSE],
              !.run = [pc |-> "watching", then |-> "none", error |-> NoOutcome]]

onBuildFailedNoClose(s, error) == [s EXCEPT !.run = Finished("threw", error)]

\* runAndClose: the catch block for an error that is not an AbortError
onBuildFailed(s, error) == closeThen(s, "threw", error)

\* runAndClose after `await this.build()` settled
runAndCloseAfterBuild(s, outcome) ==
    IF outcome.name = "AbortError" THEN [s EXCEPT !.run = Finished("returned", NoOutcome)]
    ELSE IF outcome.name = "Error" THEN onBuildFailed(s, outcome)
    ELSE IF ~s.cfg.watch THEN closeThen(s, "returned", NoOutcome)
    ELSE watch(s)

rebuildAfterBuildClears(s, r, outcome) ==
    [s EXCEPT !.rebuilds[r].pc = "done", !.changedFiles = {}]

\* rebuild after `await this.build(...)` settled
rebuildAfterBuild(s, r, outcome) ==
    [s EXCEPT !.rebuilds[r].pc = "done",
              !.changedFiles = IF outcome.name = "ok" THEN {} ELSE @]

endBuildClosing(s, a, outcome) ==
    LET s1 == [s EXCEPT !.attempts[a].pc = "ended",
                        !.attempts[a].outcome = outcome,
                        !.currentController = 0]
        owner == s.attempts[a].owner
    IN  IF owner = 0 THEN runAndCloseAfterBuild(s1, outcome)
        ELSE IF outcome.name = "Error" THEN close(rebuildAfterBuild(s1, owner, outcome))
        ELSE rebuildAfterBuild(s1, owner, outcome)

\* BuildSystem.build: the attempt ends; its finally block, then its caller
endBuild(s, a, outcome) ==
    LET s1 == [s EXCEPT !.attempts[a].pc = "ended",
                        !.attempts[a].outcome = outcome,
                        !.currentController = 0]
        owner == s.attempts[a].owner
    IN  IF owner = 0 THEN runAndCloseAfterBuild(s1, outcome)
        ELSE rebuildAfterBuild(s1, owner, outcome)

afterBuildPacksUnchecked(s, a) ==
    IF s.cfg.archives = 0 THEN endBuild(s, a, Ok)
    ELSE [s EXCEPT !.attempts[a].pc = "archives"]

\* BuildSystem.build after buildPacks resolved
afterBuildPacks(s, a) ==
    IF s.attempts[a].aborted THEN endBuild(s, a, AbortError)
    ELSE IF s.cfg.archives = 0 THEN endBuild(s, a, Ok)
    ELSE [s EXCEPT !.attempts[a].pc = "archives"]

\* PackBuilder.build resolves; Promise.all of buildPacks resolves with the last pack
resolvePack(s, a, p, hasNewCache) ==
    LET s1 == [s EXCEPT !.attempts[a].packs[p].pc = "resolved",
                        !.cache[p] = IF hasNewCache THEN a ELSE @]
    IN  IF /\ s1.attempts[a].pc = "packs"
           /\ \A q \in s.cfg.packs : s1.attempts[a].packs[q].pc = "resolved"
        THEN afterBuildPacks(s1, a)
        ELSE s1

\* PackBuilder.build rethrows; Promise.all of buildPacks rejects with the first rejection
rejectPack(s, a, p, error) ==
    LET s1 == [s EXCEPT !.attempts[a].packs[p].pc = "rejected"]
    IN  IF s1.attempts[a].pc = "packs" THEN endBuild(s1, a, error) ELSE s1

\* a pack build that has just called fs.ensureDir(outDir); failed and
\* publishFailed record that a file change or the bundler, or the copy to a
\* target directory, failed in it; issued is the number of applyFileChange
\* calls it made, recorded by SpecBundle only
NewPack ==
    [pc |-> "ensureDir", dirsLeft |-> 0, ops |-> 0, scripts |-> FALSE,
     failed |-> FALSE, publishFailed |-> FALSE, issued |-> 0]

\* BuildSystem.build(limitCheckPaths) up to the first await of every pack build
buildAttempt(s, owner, limit) ==
    LET a == Len(s.attempts) + 1
    IN  [s EXCEPT !.currentController = a,
                  !.attempts = Append(@,
                      [owner |-> owner, limit |-> limit, aborted |-> FALSE,
                       pc |-> "packs", outcome |-> NoOutcome, archiveFailed |-> FALSE,
                       packs |-> [p \in s.cfg.packs |-> NewPack]])]

rebuildNoWait(s) ==
    LET r == Len(s.rebuilds) + 1
        s0 == [s EXCEPT !.burst = {}]
    IN  buildAttempt([s0 EXCEPT !.rebuilds = Append(@,
                          [pc |-> "building", scope |-> s.changedFiles, burst |-> s.burst,
                           seen |-> 0])],
                     r, Limit(s.changedFiles))

\* BuildSystem.rebuild(changedFiles), called by the debounced function
rebuild(s) ==
    LET a == s.currentController
        r == Len(s.rebuilds) + 1
        call(pc) == [pc |-> pc, scope |-> s.changedFiles, burst |-> s.burst, seen |-> 0]
        s0 == [s EXCEPT !.burst = {}]
    IN  IF a # 0
        THEN IF s.attempts[a].aborted
             THEN [s0 EXCEPT !.rebuilds = Append(@, call("early"))]
             ELSE [s0 EXCEPT !.attempts[a].aborted = TRUE,
                             !.rebuilds = Append(@, call("polling"))]
        ELSE buildAttempt([s0 EXCEPT !.rebuilds = Append(@, call("building"))],
                          r, Limit(s.changedFiles))

\* fs.ensureDir(outDir) completed; detectSourceTreeChanges reaches its loop
ensureDirDone(s, a, p, dirs) ==
    LET s1 == [s EXCEPT !.tempExists = TRUE]
    IN  IF s.attempts[a].aborted THEN rejectPack(s1, a, p, AbortError)
        ELSE [s1 EXCEPT !.attempts[a].packs[p].pc = "dir",
                        !.attempts[a].packs[p].dirsLeft = dirs]

\* executeBuild goes on to copyOutputToTargetDirs
startPublish(s, a, p) ==
    [s EXCEPT !.attempts[a].packs[p].pc = "publish",
              !.attempts[a].packs[p].scripts = FALSE]

\* executeBuild after Promise.all(fileProcessingPromises) resolved:
\* compileScriptsIfNeeded, or straight on to the target directories
afterFileChanges(s, a, p) ==
    IF s.attempts[a].packs[p].scripts
    THEN [s EXCEPT !.attempts[a].packs[p].pc = "bundle"]
    ELSE startPublish(s, a, p)

\* the entries of one directory were all handled; the loop goes on or ends,
\* and after it executeBuild calls applyFileChange for the changes it does not
\* leave to the bundler (with scripts, the first script change is left to it)
dirDone(s, a, p, n, scripts) ==
    LET left == s.attempts[a].packs[p].dirsLeft - 1
        aborted == s.attempts[a].aborted
        applied == IF scripts THEN n - 1 ELSE n
        s1 == [s EXCEPT !.attempts[a].packs[p].dirsLeft = 0,
                        !.attempts[a].packs[p].scripts = scripts]
    IN  IF left > 0
        THEN IF aborted THEN rejectPack(s, a, p, AbortError)
             ELSE [s EXCEPT !.attempts[a].packs[p].dirsLeft = left]
        ELSE IF n <= 0 THEN resolvePack(s, a, p, FALSE)
        ELSE IF applied <= 0 THEN afterFileChanges(s1, a, p)
        ELSE IF aborted THEN rejectPack(s1, a, p, Failure("signal"))
        ELSE [s1 EXCEPT !.attempts[a].packs[p].pc = "apply",
                        !.attempts[a].packs[p].ops = applied]

opDoneEager(s, a, p, kind) ==
    LET s1 == [s EXCEPT !.attempts[a].packs[p].ops = @ - 1,
                        !.tempExists = IF kind = "write" THEN TRUE ELSE @]
    IN  IF s.attempts[a].packs[p].pc = "apply" THEN afterFileChanges(s1, a, p) ELSE s1

\* one applyFileChange completed; the last one lets executeBuild go on
opDone(s, a, p, kind) ==
    LET s1 == [s EXCEPT !.attempts[a].packs[p].ops = @ - 1,
                        !.tempExists = IF kind = "write" THEN TRUE ELSE @]
    IN  IF s.attempts[a].packs[p].pc = "apply" /\ s.attempts[a].packs[p].ops = 1
        THEN afterFileChanges(s1, a, p)
        ELSE s1

failedStepIgnored(s, a, p) ==
    IF s.attempts[a].packs[p].ops = 0 THEN startPublish(s, a, p) ELSE s

\* executeBuild: the catch blocks around Promise.all(fileProcessingPromises)
\* and compileScriptsIfNeeded rethrow
failedStep(s, a, p) == rejectPack(s, a, p, Failure("io"))

\* one applyFileChange failed; the others it raced with keep running
opFail(s, a, p) ==
    LET s1 == [s EXCEPT !.attempts[a].packs[p].ops = @ - 1]
    IN  IF s.attempts[a].packs[p].pc = "apply"
        THEN failedStep([s1 EXCEPT !.attempts[a].packs[p].failed = TRUE], a, p)
        ELSE s1

\* compileScriptsIfNeeded completed: the bundle was written into the staging directory
bundleDone(s, a, p) ==
    startPublish([s EXCEPT !.tempExists = TRUE], a, p)

\* compileScriptsIfNeeded failed
bundleFail(s, a, p) ==
    failedStep([s EXCEPT !.attempts[a].packs[p].failed = TRUE], a, p)

publishFailRejects(s, a, p) == rejectPack(s, a, p, Failure("io"))

\* executeBuild: the catch block around copyOutputToTargetDirs only logs
publishFail(s, a, p) == resolvePack(s, a, p, TRUE)

\* copyOutputToTargetDirs resolved; executeBuild returns { newCache }
publishDone(s, a, p) == resolvePack(s, a, p, TRUE)

\* createArchives: the catch block around createArchive only logs
archiveFail(s, a) == endBuild(s, a, Ok)

\* every createArchive resolved
archivesDone(s, a) == endBuild(s, a, Ok)

\* tempDir.cleanup() completed; a runAndClose awaiting close() goes on
cleanupDone(s) ==
    LET s1 == [s EXCEPT !.cleanup = "done", !.tempExists = FALSE]
    IN  IF s.run.pc = "closing"
        THEN [s1 EXCEPT !.run = Finished(s.run.then, s.run.error)]
        ELSE s1

\* _closeResolve after `await watcher.close()`
watcherClosed(s) ==
    LET s1 == [s EXCEPT !.watcher = "closed",
                        !.debounce = [timer |-> FALSE, aborted |-> TRUE]]
    IN  IF s.run.pc = "watching"
        THEN [s1 EXCEPT !.run = Finished("returned", NoOutcome)]
        ELSE s1

\* onFileChange
onFileChange(s, filePath) ==
    [s EXCEPT !.changedFiles = @ \cup {filePath},
              !.burst = @ \cup {filePath},
              !.debounce.timer = ~s.debounce.aborted]

\* the build configurations: watch mode, the packs configured, the number of
\* archive options, and whether the behavior pack declares script options
Configs ==
    { c \in [watch : BOOLEAN, packs : { {"bp"}, Packs }, archives : 0..1, scripts : BOOLEAN] :
        c.scripts => (c.packs = {"bp"} /\ c.archives = 0) }

\* new BuildSystem(ctx), ctx made by createContext: the temporary root exists
NewSystem(cfg) ==
    [cfg |-> cfg,
     isClosed |-> FALSE,
     currentController |-> 0,
     closeResolve |-> FALSE,
     cleanup |-> "none",
     tempExists |-> TRUE,
     run |-> Finished("init", NoOutcome),
     watcher |-> "none",
     debounce |-> [timer |-> FALSE, aborted |-> FALSE],
     changedFiles |-> {},
     burst |-> {},
     attempts |-> <<>>,
     cache |-> [p \in cfg.packs |-> 0],
     rebuilds |-> <<>>]

runAndCloseUnchecked(s) ==
    buildAttempt([s EXCEPT !.run.pc = "building"], 0, NoLimit)

\* BuildSystem.runAndClose() up to its first await
runAndClose(s) ==
    IF s.isClosed
    THEN [s EXCEPT !.run = Finished("threw", Failure("closed"))]
    ELSE buildAttempt([s EXCEPT !.run.pc = "building"], 0, NoLimit)

Init ==
    /\ incl = InclIdle
    /\ pk = PkIdle
    /\ \E cfg \in Configs : sys = NewSystem(cfg)

Attempts == 1..Len(sys.attempts)

\* runAndClose() is called
RunAndClose ==
    /\ sys.run.pc = "init"
    /\ sys' = runAndClose(sys)
    /\ UNCHANGED <<incl, pk>>

\* close() is called from outside: a signal handler, or disposal
Close ==
    /\ ~sys.isClosed
    /\ sys' = close(sys)
    /\ UNCHANGED <<incl, pk>>

CleanupDone ==
    /\ sys.cleanup = "pending"
    /\ sys' = cleanupDone(sys)
    /\ UNCHANGED <<incl, pk>>

EnsureDirDone ==
    \E a \in Attempts, p \in sys.cfg.packs, dirs \in 1..MaxDirs :
        /\ sys.attempts[a].packs[p].pc = "ensureDir"
        /\ sys' = ensureDirDone(sys, a, p, dirs)
        /\ UNCHANGED <<incl, pk>>

\* n changes were detected; scripts: the behavior pack declares script options
\* and one of the changes is a script file
DirDone ==
    \E a \in Attempts, p \in sys.cfg.packs, n \in 0..MaxChanges, scripts \in BOOLEAN :
        /\ sys.attempts[a].packs[p].pc = "dir"
        /\ scripts => (sys.cfg.scripts /\ p = "bp" /\ n > 0)
        /\ sys' = dirDone(sys, a, p, n, scripts)
        /\ UNCHANGED <<incl, pk>>

OpDone ==
    \E a \in Attempts, p \in sys.cfg.packs, kind \in {"write", "remove"} :
        /\ sys.attempts[a].packs[p].ops > 0
        /\ sys' = opDone(sys, a, p, kind)
        /\ UNCHANGED <<incl, pk>>

OpFail ==
    \E a \in Attempts, p \in sys.cfg.packs :
        /\ sys.attempts[a].packs[p].ops > 0
        /\ sys' = opFail(sys, a, p)
        /\ UNCHANGED <<incl, pk>>

BundleDone ==
    \E a \in Attempts, p \in sys.cfg.packs :
        /\ sys.attempts[a].packs[p].pc = "bundle"
        /\ sys' = bundleDone(sys, a, p)
        /\ UNCHANGED <<incl, pk>>

BundleFail ==
    \E a \in Attempts, p \in sys.cfg.packs :
        /\ sys.attempts[a].packs[p].pc = "bundle"
        /\ sys' = bundleFail(sys, a, p)
        /\ UNCHANGED <<incl, pk>>

PublishDone ==
    \E a \in Attempts, p \in sys.cfg.packs :
        /\ sys.attempts[a].packs[p].pc = "publish"
        /\ sys' = publishDone(sys, a, p)
        /\ UNCHANGED <<incl, pk>>

\* copying to a target directory failed
PublishFail ==
    \E a \in Attempts, p \in sys.cfg.packs :
        /\ sys.attempts[a].packs[p].pc = "publish"
        /\ sys' = publishFail([sys EXCEPT !.attempts[a].packs[p].publishFailed = TRUE], a, p)
        /\ UNCHANGED <<incl, pk>>

ArchivesDone ==
    \E a \in Attempts :
        /\ sys.attempts[a].pc = "archives"
        /\ sys' = archivesDone(sys, a)
        /\ UNCHANGED <<incl, pk>>

\* createArchive rejected: an I/O error, or the abort of the attempt's token
ArchivesFail ==
    \E a \in Attempts :
        /\ sys.attempts[a].pc = "archives"
        /\ sys' = archiveFail([sys EXCEPT !.attempts[a].archiveFailed = TRUE], a)
        /\ UNCHANGED <<incl, pk>>

WatcherClosed ==
    /\ sys.watcher = "closing"
    /\ sys' = watcherClosed(sys)
    /\ UNCHANGED <<incl, pk>>

\* the watcher reports an add, change or unlink of an included file
FileEvent ==
    \E filePath \in EventPaths :
        /\ sys.watcher = "open"
        /\ sys' = onFileChange(sys, filePath)
        /\ UNCHANGED <<incl, pk>>

\* the debounce wait elapsed: the debounced function calls rebuild
DebounceFire ==
    /\ sys.debounce.timer
    /\ Len(sys.rebuilds) < MaxRebuilds
    /\ sys' = rebuild([sys EXCEPT !.debounce.timer = FALSE])
    /\ UNCHANGED <<incl, pk>>

\* a tick of rebuild's setInterval that finds _currentController undefined
PollTick ==
    \E r \in 1..Len(sys.rebuilds) :
        /\ sys.rebuilds[r].pc = "polling"
        /\ sys.currentController = 0
        /\ sys' = buildAttempt([sys EXCEPT !.rebuilds[r].pc = "building"],
                               r, Limit(sys.changedFiles))
        /\ UNCHANGED <<incl, pk>>

\* executeBuild and createArchives go on in the same way whether the copy to the
\* target directories or the archive creation succeeded or failed (publishFail,
\* archiveFail), so in Spec PublishDone and ArchivesDone stand for either
\* outcome; SpecOnce tells the failures apart.
Next ==
    \/ RunAndClose \/ Close \/ CleanupDone
    \/ EnsureDirDone \/ DirDone \/ OpDone \/ OpFail \/ BundleDone \/ BundleFail
    \/ PublishDone \/ ArchivesDone
    \/ WatcherClosed \/ FileEvent \/ DebounceFire \/ PollTick

Spec == Init /\ [][Next]_vars

(***************************************************************************)
(* SpecOnce: the systems whose configuration disables watch mode.  No      *)
(* watcher exists in them, so no file event, debounce or rebuild step is   *)
(* ever enabled; SpecOnce has the behaviours of Spec with watch disabled,  *)
(* and records in them which copies and archive creations failed.          *)
(***************************************************************************)
InitOnce == Init /\ ~sys.cfg.watch

NextOnce ==
    \/ RunAndClose \/ Close \/ CleanupDone
    \/ EnsureDirDone \/ DirDone \/ OpDone \/ OpFail \/ BundleDone \/ BundleFail
    \/ PublishDone \/ PublishFail \/ ArchivesDone \/ ArchivesFail

SpecOnce == InitOnce /\ [][NextOnce]_vars

\* an attempt is mutating while a file change it issued is in flight or while
\* one of its pack builds is publishing to the target directories
mutating(a) ==
    \E p \in sys.cfg.packs :
        sys.attempts[a].packs[p].ops > 0 \/ sys.attempts[a].packs[p].pc = "publish"

\* nothing is in flight: no attempt, pack build, file change, polling rebuild,
\* pending debounce timer or closing watcher
settled ==
    /\ sys.currentController = 0
    /\ \A a \in Attempts :
          /\ sys.attempts[a].pc = "ended"
          /\ \A p \in sys.cfg.packs :
                /\ sys.attempts[a].packs[p].pc \in {"resolved", "rejected"}
                /\ sys.attempts[a].packs[p].ops = 0
    /\ \A r \in 1..Len(sys.rebuilds) : sys.rebuilds[r].pc # "polling"
    /\ ~sys.debounce.timer
    /\ sys.watcher # "closing"
    /\ sys.cleanup # "pending"

\* C1: at every instant at most one build attempt is mutating the staging and
\* target directories; the attempt that replaces a cancelled one mutates
\* nothing until every pack build and file change of the cancelled one settled.
C1_OneMutatingAttempt ==
    Cardinality({ a \in Attempts : mutating(a) }) <= 1

\* C2: a pack's cache is replaced only by an attempt that ends successfully;
\* an attempt that ends cancelled or failed has replaced no cache.
C2_CacheOnlyOnSuccess ==
    \A p \in sys.cfg.packs :
        (sys.cache[p] # 0 /\ sys.attempts[sys.cache[p]].pc = "ended") =>
            sys.attempts[sys.cache[p]].outcome.name = "ok"

\* C4: once close() was called and everything in flight has settled, the
\* temporary staging root does not exist.
C4_TempRootGone ==
    (sys.isClosed /\ settled) => ~sys.tempExists

\* C5: closed is terminal: in a closed system no step starts a build attempt,
\* creates a watcher or calls rebuild.
C5_ClosedTerminal ==
    [][sys.isClosed =>
          /\ Len(sys'.attempts) = Len(sys.attempts)
          /\ Len(sys'.rebuilds) = Len(sys.rebuilds)
          /\ (sys'.watcher = "open" => sys.watcher = "open")]_vars

\* C6: an attempt that stops because its token was signalled ends with the
\* AbortError outcome, never with a generic failure.
C6_CancellationIsAbortError ==
    \A a \in Attempts :
        (sys.attempts[a].pc = "ended" /\ sys.attempts[a].outcome.cause = "signal") =>
            sys.attempts[a].outcome.name = "AbortError"

\* C10: with watch disabled, when runAndClose() has ended the system is
\* closed; it ran at most the one full build, returned if that build
\* succeeded, and threw that build's error if it failed.
C10_NoWatchEndsClosed ==
    (~sys.cfg.watch /\ sys.run.pc \in {"returned", "threw"}) =>
        /\ sys.isClosed
        /\ Len(sys.attempts) <= 1
        /\ \A a \in Attempts :
              /\ ~sys.attempts[a].limit.defined
              /\ sys.attempts[a].outcome.name = "ok" => sys.run.pc = "returned"
              /\ sys.attempts[a].outcome.name = "Error" =>
                    (sys.run.pc = "threw" /\ sys.run.error = sys.attempts[a].outcome)

\* the one build failed on a file operation; runAndClose closed, cleaned up and threw
C10_Witness ==
    /\ ~sys.cfg.watch
    /\ sys.run.pc = "threw"
    /\ sys.isClosed
    /\ sys.cleanup = "done"
    /\ Len(sys.attempts) = 1
    /\ sys.attempts[1].outcome = Failure("io")

(***************************************************************************)
(* SpecLive: the watch-mode systems of one pack, with weak fairness on the *)
(* steps the event loop takes by itself: a pending I/O completion, timer   *)
(* or interval tick is eventually delivered.  close() calls and file       *)
(* events come from outside and carry no fairness.                         *)
(***************************************************************************)
InitLive == Init /\ sys.cfg.watch /\ sys.cfg.packs = {"bp"}

Fairness ==
    /\ WF_vars(RunAndClose) /\ WF_vars(CleanupDone)
    /\ WF_vars(EnsureDirDone) /\ WF_vars(DirDone)
    /\ WF_vars(OpDone \/ OpFail) /\ WF_vars(BundleDone \/ BundleFail)
    /\ WF_vars(PublishDone) /\ WF_vars(ArchivesDone)
    /\ WF_vars(WatcherClosed) /\ WF_vars(DebounceFire) /\ WF_vars(PollTick)

SpecLive == InitLive /\ [][Next]_vars /\ Fairness

\* runAndClose() has returned or thrown
runEnded == sys.run.pc \in {"returned", "threw"}

\* C11: with watch enabled, after a successful initial build runAndClose()
\* does not return until close() is called; and once close() is called, at
\* any point (also during the initial build or archive creation),
\* runAndClose() eventually returns.
C11_ReturnsExactlyAfterClose ==
    /\ []((sys.cfg.watch /\ runEnded /\ Len(sys.attempts) > 0
             /\ sys.attempts[1].outcome.name = "ok") => sys.isClosed)
    /\ ((sys.cfg.watch /\ sys.isClosed) ~> runEnded)

\* attempt a is a rebuild attempt that has ended with the given outcome name
rebuildEnded(t, a, name) ==
    /\ t.attempts[a].owner # 0
    /\ t.attempts[a].pc = "ended"
    /\ t.attempts[a].outcome.name = name

C13_FailedPackBuildRejects ==
    \A a \in Attempts : \A p \in sys.cfg.packs :
        sys.attempts[a].packs[p].failed =>
            /\ sys.attempts[a].packs[p].pc = "rejected"
            /\ sys.cache[p] # a
            /\ sys.attempts[a].pc = "ended"
            /\ sys.attempts[a].outcome.name \in {"Error", "AbortError"}

\* the bundler failed in a pack build: the build rejected without publishing
\* and the attempt ended with that failure
C13_Witness ==
    \E a \in Attempts :
        /\ sys.cfg.scripts
        /\ sys.attempts[a].packs["bp"].failed
        /\ sys.attempts[a].packs["bp"].ops = 0
        /\ sys.attempts[a].packs["bp"].pc = "rejected"
        /\ sys.attempts[a].outcome = Failure("io")
        /\ sys.cache["bp"] # a

\* C14: a failure to publish to a target directory, or to create an archive,
\* is logged and does not fail the attempt: the pack build still resolves and
\* updates the cache, the attempt still ends successfully, and an attempt
\* ends with an error only if one of its pack builds rejected.
C14_PublishAndArchiveFailuresTolerated ==
    \A a \in Attempts :
        /\ \A p \in sys.cfg.packs :
              sys.attempts[a].packs[p].publishFailed =>
                  (sys.attempts[a].packs[p].pc = "resolved" /\ sys.cache[p] = a)
        /\ sys.attempts[a].archiveFailed =>
              (sys.attempts[a].pc = "ended" /\ sys.attempts[a].outcome = Ok)
        /\ (sys.attempts[a].pc = "ended" /\ sys.attempts[a].outcome.name = "Error") =>
              \E q \in sys.cfg.packs : sys.attempts[a].packs[q].pc = "rejected"

\* publishing failed in one pack and archive creation failed, and the
\* attempt ended successfully with the pack's cache updated
C14_Witness ==
    \E a \in Attempts : \E p \in sys.cfg.packs :
        /\ sys.attempts[a].packs[p].publishFailed
        /\ sys.attempts[a].archiveFailed
        /\ sys.attempts[a].pc = "ended"
        /\ sys.attempts[a].outcome = Ok
        /\ sys.cache[p] = a

\* C15: publish is a full replace: after a successful pack build that
\* detected at least one change, the target directory holds exactly the
\* content of the staging directory, every file of it at the relative path of
\* the source file it was made from (relaxed-JSON files under a .json name),
\* and nothing of the target's previous content is left.
C15_PublishIsFullReplace ==
    (pk.last.op = "build" /\ pk.last.changes # <<>>) =>
        /\ \A d \in TargetPaths :
              pk.target[d] = IF d \in PkDests THEN pk.staged[d] ELSE NoContent
        /\ \A d \in TargetPaths :
              pk.target[d] # NoContent => getDestPath(pk.target[d].from) = d

\* a build with changes published a converted relaxed-JSON file and another
\* file over a target that held stale content
C15_Witness ==
    /\ pk.last.op = "build"
    /\ pk.last.changes # <<>>
    /\ pk.target["old.txt"] = NoContent
    /\ pk.target["a.json"].from = "a.json5"
    /\ pk.target["d/b.png"].from = "d/b.png"
    /\ pk.target["a.json"] = pk.staged["a.json"]

\* attempt a ends with a failure in the step from t to u
failsIn(t, u, a) ==
    /\ t.attempts[a].pc # "ended"
    /\ u.attempts[a].pc = "ended"
    /\ u.attempts[a].outcome.name = "Error"

\* the failure did not close the system, and if nobody closed it the watcher
\* is open and a file event arms the debounce timer
keepsWatching(t, u) ==
    /\ u.isClosed = t.isClosed
    /\ ~u.isClosed => (u.watcher = "open" /\ ~u.debounce.aborted /\ u.run.pc = "watching")

\* C16 (as stated): in watch mode the failure of a build attempt, the initial
\* one included, only logs and keeps watching: it does not close the system,
\* and a later filesystem event still triggers a rebuild.
C16_FailureKeepsWatching ==
    [][\A a \in Attempts :
          (sys.cfg.watch /\ failsIn(sys, sys', a)) => keepsWatching(sys, sys')]_vars

\* C16 (amended): in watch mode the failure of a rebuild attempt only logs and
\* keeps watching: it does not close the system, and a later filesystem
\* event still triggers a rebuild.
C16_RebuildFailureKeepsWatching ==
    [][\A a \in Attempts :
          (sys.cfg.watch /\ sys.attempts[a].owner # 0 /\ failsIn(sys, sys', a)) =>
              keepsWatching(sys, sys')]_vars

\* a rebuild attempt failed on a file operation, the system stayed open, and
\* a later file event made rebuild start the next attempt
C16_Witness ==
    \E a \in Attempts :
        /\ sys.attempts[a].owner # 0
        /\ sys.attempts[a].pc = "ended"
        /\ sys.attempts[a].outcome = Failure("io")
        /\ ~sys.isClosed
        /\ sys.watcher = "open"
        /\ a + 1 \in Attempts
        /\ sys.attempts[a + 1].owner > sys.attempts[a].owner

(***************************************************************************)
(* SpecEntry: build(configInput, options), the entry point that validates  *)
(* the configuration, creates the context with its temporary root,         *)
(* constructs the BuildSystem and runs it.  sys has the fields of a        *)
(* BuildSystem and, besides, main (where build() is), logged (the error    *)
(* build() logged before returning early) and signalAborted.               *)
(***************************************************************************)
\* the pack inputs a configuration may give: none, one or both
EntryPacks == SUBSET Packs

EntryInputs == [watch : {FALSE}, packs : EntryPacks, archives : 0..1, scripts : {FALSE}]

resolveAndValidateUnchecked(input) == [threw |-> FALSE, config |-> input]

\* resolveAndValidateUserConfig: throws when neither pack is configured
resolveAndValidateUserConfig(input) ==
    IF input.packs = {} THEN [threw |-> TRUE, config |-> input]
    ELSE [threw |-> FALSE, config |-> input]

\* build() is called: nothing exists yet
EntryStart(input, signalAborted) ==
    [main |-> "start", logged |-> "none", signalAborted |-> signalAborted]
        @@ [NewSystem(input) EXCEPT !.tempExists = FALSE, !.run.pc = "none"]

InitEntry ==
    /\ incl = InclIdle
    /\ pk = PkIdle
    /\ \E input \in EntryInputs, signalAborted \in BOOLEAN :
          sys = EntryStart(input, signalAborted)

\* build() up to `await BuildSystem.createContext(buildConfig)`
validate(s) ==
    IF s.signalAborted THEN [s EXCEPT !.main = "returned", !.logged = "aborted"]
    ELSE IF resolveAndValidateUserConfig(s.cfg).threw
         THEN [s EXCEPT !.main = "returned", !.logged = "config"]
         ELSE [s EXCEPT !.main = "createContext"]

Validate ==
    /\ sys.main = "start"
    /\ sys' = validate(sys)
    /\ UNCHANGED <<incl, pk>>

\* tmp.dir resolved: the BuildSystem is constructed, the abort handlers are
\* registered and runAndClose() is called
ContextCreated ==
    /\ sys.main = "createContext"
    /\ sys' = runAndClose([sys EXCEPT !.main = "running", !.tempExists = TRUE,
                                      !.run.pc = "init"])
    /\ UNCHANGED <<incl, pk>>

\* tmp.dir rejected
ContextFailed ==
    /\ sys.main = "createContext"
    /\ sys' = [sys EXCEPT !.main = "returned", !.logged = "context"]
    /\ UNCHANGED <<incl, pk>>

\* SIGINT, SIGTERM or the abort of options.signal: onAbort calls close()
OnAbort ==
    /\ sys.main = "running"
    /\ Close

\* runAndClose() settled: build() returns, or rethrows
MainDone ==
    /\ sys.main = "running"
    /\ runEnded
    /\ sys' = [sys EXCEPT !.main = sys.run.pc]
    /\ UNCHANGED <<incl, pk>>

NextEntry ==
    \/ Validate \/ ContextCreated \/ ContextFailed \/ OnAbort \/ MainDone
    \/ CleanupDone
    \/ EnsureDirDone \/ DirDone \/ OpDone \/ OpFail
    \/ PublishDone \/ PublishFail \/ ArchivesDone \/ ArchivesFail

SpecEntry == InitEntry /\ [][NextEntry]_vars

\* C17: a configuration with neither a behavior pack nor a resource pack is
\* rejected before any build starts: resolveAndValidateUserConfig throws, and
\* build() returns without creating a temporary staging root or starting a
\* build attempt.
C17_NoPacksRejected ==
    (sys.cfg.packs = {} /\ sys.main # "start") =>
        /\ sys.main = "returned"
        /\ sys.logged \in {"config", "aborted"}
        /\ ~sys.signalAborted => sys.logged = "config"
        /\ ~sys.tempExists
        /\ Len(sys.attempts) = 0
        /\ sys.run.pc = "none"

\* build() was given no pack and a live signal: it logged the validation
\* error and returned with nothing created
C17_Witness ==
    /\ sys.cfg.packs = {}
    /\ ~sys.signalAborted
    /\ sys.main = "returned"
    /\ sys.logged = "config"
    /\ ~sys.tempExists
    /\ Len(sys.attempts) = 0

\* C18: watch events are accumulated into one changed-path set and rebuilds
\* are requested through a trailing-edge debounce: a burst of events triggers
\* exactly one rebuild() call, made by the debounce timer after the last
\* event of the burst, and the scope of that call contains every path of
\* the burst.
C18_BurstTriggersOneScopedRebuild ==
    [][LET n == Len(sys.rebuilds) IN
          /\ Len(sys'.rebuilds) \in {n, n + 1}
          /\ Len(sys'.rebuilds) = n + 1 =>
                /\ sys.debounce.timer /\ ~sys'.debounce.timer
                /\ sys.burst # {} /\ sys'.burst = {}
                /\ sys'.rebuilds[n + 1].burst = sys.burst
                /\ sys.burst \subseteq sys'.rebuilds[n + 1].scope
          /\ sys'.burst \notin {sys.burst, {}} => Len(sys'.rebuilds) = n]_vars

\* C19: a build attempt builds all configured packs concurrently and does not
\* end (its current-attempt reference is not cleared, its outcome is not
\* reported) until every pack build it started has settled, also when one
\* pack build rejects while the other is still running.
C19_AttemptEndsAfterAllPacksSettle ==
    \A a \in Attempts :
        /\ DOMAIN sys.attempts[a].packs = sys.cfg.packs
        /\ (sys.attempts[a].pc = "ended" \/ sys.currentController # a) =>
              \A p \in sys.cfg.packs :
                  sys.attempts[a].packs[p].pc \in {"resolved", "rejected"}

\* C20: once an attempt's cancellation token is signalled, the attempt issues
\* no new work: after the signal it starts no further file transformation,
\* bundler invocation, publish to a target directory or archive creation.
C20_NoNewWorkAfterSignal ==
    [][\A a \in Attempts :
          sys.attempts[a].aborted =>
              /\ \A p \in sys.cfg.packs :
                    LET before == sys.attempts[a].packs[p]
                        after == sys'.attempts[a].packs[p]
                    IN  /\ after.ops <= before.ops
                        /\ after.pc \in {"bundle", "publish"} => after.pc = before.pc
              /\ sys'.attempts[a].pc = "archives" => sys.attempts[a].pc = "archives"]_vars

\* C21: in a scope-limited rebuild every file that is in the old cache, is in
\* the scope set and is no longer on disk yields exactly one remove change,
\* wherever it stands among the cache's entries and whichever other cached
\* files are outside the scope set.
C21_ScopedRemoveDetected ==
    (pk.last.op = "build" /\ pk.last.limit.defined) =>
        \A f \in cacheKeys(pk.last.oldCache) \cap pk.last.limit.paths :
            pk.disk[f] = 0 =>
                Cardinality(changesOf(pk.last.changes, f, "remove")) = 1

\* C22: in a scope-limited rebuild only the files of the scope set are
\* diff-checked: a file outside the set yields no add, update or remove
\* change in that build, even if its timestamp changed or it was deleted.
C22_OnlyScopeIsDiffed ==
    (pk.last.op = "build" /\ pk.last.limit.defined) =>
        \A i \in 1..Len(pk.last.changes) :
            pk.last.changes[i].filePath \in pk.last.limit.paths

\* a scoped build found a change inside its scope while a cached file outside
\* the scope had been deleted and another one rewritten
C22_Witness ==
    /\ pk.last.op = "build"
    /\ pk.last.limit.defined
    /\ pk.last.changes # <<>>
    /\ \E f \in cacheKeys(pk.last.oldCache) \ pk.last.limit.paths : pk.disk[f] = 0
    /\ \E f \in cacheKeys(pk.last.oldCache) \ pk.last.limit.paths :
          pk.disk[f] # 0 /\ cachedEntry(pk.last.oldCache, f).timestamp # pk.disk[f]

\* the files the traversal of the last build reached (those it entered into
\* newCache), recomputed on the unchanged source tree
discovered(p) ==
    cacheKeys(detectSourceTreeChanges(p.config, p.last.oldCache, p.disk,
                  [limitCheckPaths |-> p.last.limit,
                   order |-> <<"a.json5", "a.json", "d/b.png">>]).newCache)

\* C23: directories are traversed whatever the inclusion rules say of them:
\* a full build's traversal discovers every file under the source root that
\* satisfies the inclusion contract, also when an ancestor directory does not
\* itself match the include globs or matches an exclude glob.
C23_EveryIncludedFileDiscovered ==
    (pk.last.op = "build" /\ ~pk.last.limit.defined) =>
        includedOnDisk(pk) \subseteq discovered(pk)

(***************************************************************************)
(* SpecWalk: one call of detectSourceTreeChanges, step by step, on a       *)
(* source tree that does not change meanwhile: each step is the completion *)
(* of one awaited readdir or stat and the code that runs after it.  The    *)
(* token of the attempt can be signalled between any two of them.  The old *)
(* cache is the one a full build of an earlier source tree left.           *)
(***************************************************************************)
\* the cache a full build leaves on source tree `disk`
cacheOf(config, disk) ==
    detectSourceTreeChanges(config, <<>>, disk,
        [limitCheckPaths |-> NoLimit, order |-> <<"a.json5", "a.json", "d/b.png">>]).newCache

\* detectSourceTreeChanges is called: nothing read yet
WalkStart(config, lastCache, disk, limit) ==
    [op |-> "walk", config |-> config, lastCache |-> lastCache, disk |-> disk,
     ctx |-> [limitCheckPaths |-> limit], aborted |-> FALSE, pc |-> "start",
     dirSearchQueue |-> <<PkRoot>>, dir |-> PkRoot, statting |-> {}, checking |-> {},
     skipped |-> {}, changes |-> <<>>, newCache |-> <<>>, currentFiles |-> {}]

InitWalk ==
    /\ incl = InclIdle
    /\ sys = SysIdle
    /\ \E config \in 1..Len(PkConfigs), before \in [PkFiles -> 0..1],
          disk \in [PkFiles -> 0..MaxStamp], limit \in PkLimits :
          pk = WalkStart(config, cacheOf(config, before), disk, limit)

\* the head of the while loop, and what follows the loop
loopHead(p) ==
    IF p.dirSearchQueue = <<>>
    THEN [p EXCEPT !.pc = "returned",
                   !.changes = @ \o removals(p.lastCache, p.ctx, p.currentFiles)]
    ELSE IF p.aborted THEN [p EXCEPT !.pc = "threw"]
    ELSE [p EXCEPT !.pc = "readdir",
                   !.dir = Head(p.dirSearchQueue),
                   !.dirSearchQueue = Tail(p.dirSearchQueue)]

\* Promise.all(promises) resolves once every entry of the directory is handled
entryHandled(p) ==
    IF p.statting = {} /\ p.checking = {} THEN loopHead(p) ELSE p

\* fs.readdir(dir) completed: every included entry starts its fs.stat
readdirDone(p) ==
    entryHandled([p EXCEPT !.pc = "entries",
                           !.statting = { e \in readdir(p.disk, p.dir) :
                                            shouldInclude(p.config, e) }])

\* fs.stat(fullPath) completed: a directory is queued, a file in the scope is
\* handed to checkFileChanges, which returns at once when the signal is set
statDone(p, e) ==
    LET shouldCheck == ~p.ctx.limitCheckPaths.defined \/ e \in p.ctx.limitCheckPaths.paths
        p1 == [p EXCEPT !.statting = @ \ {e}]
    IN  entryHandled(
            IF isDirectory(p.disk, e) THEN [p1 EXCEPT !.dirSearchQueue = Append(@, e)]
            ELSE IF isFile(p.disk, e) /\ shouldCheck
                 THEN IF p.aborted THEN [p1 EXCEPT !.skipped = @ \cup {e}]
                      ELSE [p1 EXCEPT !.checking = @ \cup {e}]
            ELSE p1)

\* the fs.stat inside checkFileChanges completed: the file is classified
checkDone(p, e) ==
    LET acc == checkFileChanges(<<e>>, p.lastCache, p.disk,
                   [changes |-> p.changes, newCache |-> p.newCache,
                    currentFiles |-> p.currentFiles])
    IN  entryHandled([p EXCEPT !.checking = @ \ {e},
                               !.changes = acc.changes,
                               !.newCache = acc.newCache,
                               !.currentFiles = acc.currentFiles])

walking(p) == p.pc \in {"start", "readdir", "entries"}

\* the loop is entered, after executeBuild awaited fs.ensureDir
WalkEnter ==
    /\ pk.pc = "start"
    /\ pk' = loopHead(pk)
    /\ UNCHANGED <<incl, sys>>

ReaddirDone ==
    /\ pk.pc = "readdir"
    /\ pk' = readdirDone(pk)
    /\ UNCHANGED <<incl, sys>>

StatDone ==
    \E e \in pk.statting :
        /\ pk.pc = "entries"
        /\ pk' = statDone(pk, e)
        /\ UNCHANGED <<incl, sys>>

CheckDone ==
    \E e \in pk.checking :
        /\ pk.pc = "entries"
        /\ pk' = checkDone(pk, e)
        /\ UNCHANGED <<incl, sys>>

\* the attempt's token is signalled while the traversal is under way
WalkSignal ==
    /\ walking(pk)
    /\ ~pk.aborted
    /\ pk' = [pk EXCEPT !.aborted = TRUE]
    /\ UNCHANGED <<incl, sys>>

NextWalk == WalkEnter \/ ReaddirDone \/ StatDone \/ CheckDone \/ WalkSignal

SpecWalk == InitWalk /\ [][NextWalk]_vars

\* C24: if the cancellation token is signalled at any point during the
\* traversal, detectSourceTreeChanges throws the cancellation signal: it
\* never returns a change list, and so never one that reports as removed a
\* file that is on disk and was only skipped because of the cancellation.
C24_SignalledTraversalThrows ==
    pk.pc = "returned" =>
        /\ ~pk.aborted
        /\ \A i \in 1..Len(pk.changes) :
              pk.changes[i].type = "remove" => pk.disk[pk.changes[i].filePath] = 0

(***************************************************************************)
(* SpecBundle: one-shot builds of a behavior pack that declares script     *)
(* options, alone or beside a resource pack, in which a build detects up   *)
(* to MaxBundleChanges changes, one of them possibly a script.             *)
(***************************************************************************)
MaxBundleChanges == 3

InitBundle ==
    /\ incl = InclIdle
    /\ pk = PkIdle
    /\ \E packs \in { {"bp"}, Packs } :
          sys = NewSystem([watch |-> FALSE, packs |-> packs, archives |-> 0, scripts |-> TRUE])

\* as DirDone, with more changes, and recording how many file changes are issued
DirDoneMany ==
    \E a \in Attempts, p \in sys.cfg.packs, n \in 0..MaxBundleChanges, scripts \in BOOLEAN :
        /\ sys.attempts[a].packs[p].pc = "dir"
        /\ scripts => (sys.cfg.scripts /\ p = "bp" /\ n > 0)
        /\ sys' = [dirDone(sys, a, p, n, scripts) EXCEPT
                      !.attempts[a].packs[p].issued = IF scripts THEN n - 1 ELSE n]
        /\ UNCHANGED <<incl, pk>>

NextBundle ==
    \/ RunAndClose \/ Close \/ CleanupDone
    \/ EnsureDirDone \/ DirDoneMany \/ OpDone \/ OpFail \/ BundleDone \/ BundleFail
    \/ PublishDone \/ PublishFail

SpecBundle == InitBundle /\ [][NextBundle]_vars

\* C25: within one pack build the bundler is invoked at most once, only after
\* every file change the build issued has completed, and never if one of
\* them failed.
C25_BundlerOnceAfterFileChanges ==
    [][\A a \in Attempts : \A p \in sys.cfg.packs :
          LET before == sys.attempts[a].packs[p]
              after == sys'.attempts[a].packs[p]
          IN  /\ after.pc = "bundle" => (after.ops = 0 /\ ~after.failed)
              /\ (after.pc = "bundle" /\ before.pc # "bundle") =>
                    before.pc \in {"dir", "apply"}
              /\ (before.pc \in {"bundle", "publish", "resolved", "rejected"}
                    /\ after.pc # before.pc) =>
                    after.pc \in {"publish", "resolved", "rejected"}]_vars

\* the bundler is running after the two file changes issued beside the
\* script change have completed
C25_Witness ==
    \E a \in Attempts :
        /\ sys.attempts[a].packs["bp"].pc = "bundle"
        /\ sys.attempts[a].packs["bp"].issued = 2
        /\ sys.attempts[a].packs["bp"].ops = 0
        /\ ~sys.attempts[a].packs["bp"].failed

(***************************************************************************)
(* SpecPlan: the loop of executeBuild that decides, change by change,      *)
(* which detected changes are handed to applyFileChange and whether the    *)
(* bundler is to run.  File names are sequences of characters.             *)
(***************************************************************************)
MaxPlan == 3

SCRIPT_FILE_EXTENSIONS ==
    { <<".", "j", "s">>, <<".", "c", "j", "s">>, <<".", "m", "j", "s">>, <<".", "j", "s", "x">>,
      <<".", "t", "s">>, <<".", "c", "t", "s">>, <<".", "m", "t", "s">>, <<".", "t", "s", "x">> }

PlanNames ==
    { <<"m", ".", "t", "s">>, <<"u", ".", "m", "j", "s">>,
      <<"a", ".", "j", "s", "o", "n">>, <<"j", "s">> }

PlanChanges == [type : {"add", "update", "remove"}, filePath : PlanNames]

\* change lists name each file once
PlanLists ==
    { cs \in UNION { [1..n -> PlanChanges] : n \in 0..MaxPlan } :
        \A i, j \in 1..Len(cs) : cs[i].filePath = cs[j].filePath => i = j }

InitPlan ==
    /\ incl = InclIdle
    /\ sys = NewSystem([watch |-> FALSE, packs |-> {"bp"}, archives |-> 0, scripts |-> FALSE])
    /\ \E type \in {"behavior", "resource"}, scripts \in BOOLEAN, cs \in PlanLists :
          pk = [op |-> "plan", config |-> [type |-> type, scripts |-> scripts],
                changes |-> cs, next |-> 1, shouldBundleScripts |-> FALSE,
                fileProcessing |-> <<>>]

\* the condition under which the loop leaves a change to the bundler
leftToBundler(p, change) ==
    /\ ~p.shouldBundleScripts
    /\ p.config.type = "behavior"
    /\ p.config.scripts
    /\ extname(change.filePath) \in SCRIPT_FILE_EXTENSIONS

PlanSkip ==
    /\ pk.op = "plan" /\ pk.next <= Len(pk.changes)
    /\ leftToBundler(pk, pk.changes[pk.next])
    /\ pk' = [pk EXCEPT !.shouldBundleScripts = TRUE, !.next = @ + 1]
    /\ UNCHANGED <<incl, sys>>

PlanApply ==
    /\ pk.op = "plan" /\ pk.next <= Len(pk.changes)
    /\ ~leftToBundler(pk, pk.changes[pk.next])
    /\ pk' = [pk EXCEPT !.fileProcessing = Append(@, pk.changes[pk.next]), !.next = @ + 1]
    /\ UNCHANGED <<incl, sys>>

NextPlan == PlanSkip \/ PlanApply

SpecPlan == InitPlan /\ [][NextPlan]_vars

\* C26: when the pack declares script options, no add or update of a file
\* with a script extension, at any position of the change list, is handed to
\* applyFileChange.
C26_ScriptChangesLeftToBundler ==
    (pk.op = "plan" /\ pk.config.type = "behavior" /\ pk.config.scripts) =>
        \A i \in 1..Len(pk.fileProcessing) :
            pk.fileProcessing[i].type \in {"add", "update"} =>
                extname(pk.fileProcessing[i].filePath) \notin SCRIPT_FILE_EXTENSIONS

\* C27: an attempt starts creating archives only when every pack build of
\* the attempt has completed successfully and the attempt's token is not
\* signalled at that moment.
C27_ArchivesAfterAllPacksSucceeded ==
    [][\A a \in Attempts :
          (sys'.attempts[a].pc = "archives" /\ sys.attempts[a].pc # "archives") =>
              /\ \A p \in sys.cfg.packs : sys'.attempts[a].packs[p].pc = "resolved"
              /\ ~sys.attempts[a].aborted
              /\ ~sys'.attempts[a].aborted]_vars

\* a rebuild attempt of two packs is creating archives
C27_Witness ==
    \E a \in Attempts :
        /\ sys.attempts[a].pc = "archives"
        /\ sys.attempts[a].owner # 0
        /\ sys.cfg.packs = Packs
        /\ \A p \in Packs : sys.attempts[a].packs[p].pc = "resolved"

(***************************************************************************)
(* SpecWatch: the watcher of BuildSystem.watch receiving one filesystem    *)
(* event, for the behavior and resource pack configurations drawn from     *)
(* bounded sets.  The watcher reports paths under the directories it       *)
(* watches, unless its `ignored` predicate rejects them.                   *)
(***************************************************************************)
WatchFiles ==
    { Abs(<<P, SRC, AJ>>), Abs(<<P, SRC, D, BPNG>>),
      Abs(<<P, SRCX, AJ>>), Abs(<<P, SRCX, D, BPNG>>) }

WatchRoots == { Abs(<<P, SRC>>), Abs(<<P, SRCX>>) }

NoBuilder == [present |-> FALSE, srcDir |-> Abs(<<>>), include |-> Undefined, exclude |-> Undefined]

WatchBuilders ==
    {NoBuilder} \cup
    [present : {TRUE}, srcDir : WatchRoots,
     include : { Undefined, List(<<<<GLOBSTAR, STAR>>>>), List(<<<<D, GLOBSTAR, STAR>>>>) },
     exclude : { Undefined, List(<<<<AJ>>>>) }]

\* PackBuilder.isFilePartOfSrc
isFilePartOfSrc(b, file) == startsWith(toStr(resolve(file)), toStr(resolve(b.srcDir)))

\* PackBuilder.shouldInclude of a path
shouldIncludePath(b, file) == testInclusion(file, b.srcDir, b.include, b.exclude)

\* the `ignored` option given to chokidar.watch
ignored(bp, rp, file) ==
    IF bp.present /\ isFilePartOfSrc(bp, file) THEN ~shouldIncludePath(bp, file)
    ELSE IF rp.present /\ isFilePartOfSrc(rp, file) THEN ~shouldIncludePath(rp, file)
    ELSE TRUE

\* pathsToWatch holds the file's directory or an ancestor of it
watched(bp, rp, file) ==
    \/ bp.present /\ underRoot(file, bp.srcDir)
    \/ rp.present /\ underRoot(file, rp.srcDir)

InitWatch ==
    /\ incl = InclIdle
    /\ sys = SysIdle
    /\ \E bp \in WatchBuilders, rp \in WatchBuilders, file \in WatchFiles :
          /\ bp.present \/ rp.present
          /\ pk = [op |-> "watch", bp |-> bp, rp |-> rp, file |-> file,
                   pc |-> "idle", changedFiles |-> {}, rebuildRequested |-> FALSE]

\* the file changes on disk and the watcher drops the event
FsEventIgnored ==
    /\ pk.op = "watch" /\ pk.pc = "idle"
    /\ ~watched(pk.bp, pk.rp, pk.file) \/ ignored(pk.bp, pk.rp, pk.file)
    /\ pk' = [pk EXCEPT !.pc = "changed"]
    /\ UNCHANGED <<incl, sys>>

\* the file changes on disk and the watcher calls onFileChange
OnFileChange ==
    /\ pk.op = "watch" /\ pk.pc = "idle"
    /\ watched(pk.bp, pk.rp, pk.file)
    /\ ~ignored(pk.bp, pk.rp, pk.file)
    /\ pk' = [pk EXCEPT !.pc = "changed",
                        !.changedFiles = @ \cup {resolve(pk.file)},
                        !.rebuildRequested = TRUE]
    /\ UNCHANGED <<incl, sys>>

NextWatch == FsEventIgnored \/ OnFileChange

SpecWatch == InitWatch /\ [][NextWatch]_vars

\* a builder that owns the path and would include it
ownedAndIncluded(b, file) == b.present /\ isFilePartOfSrc(b, file) /\ shouldIncludePath(b, file)

\* C28: a change of a watched file is accumulated and requests a rebuild iff
\* some pack builder both owns the path and would include it; with two
\* owners it is enough that either of them includes it.
C28_EventAcceptedIffSomeOwnerIncludes ==
    (pk.op = "watch" /\ pk.pc = "changed" /\ watched(pk.bp, pk.rp, pk.file)) =>
        ((resolve(pk.file) \in pk.changedFiles /\ pk.rebuildRequested)
            <=> (ownedAndIncluded(pk.bp, pk.file) \/ ownedAndIncluded(pk.rp, pk.file)))

(***************************************************************************)
(* SpecClean: one pack build applying one remove change to its staging     *)
(* directory and then publishing it.  Staged paths are sequences of names  *)
(* relative to the staging root.                                           *)
(***************************************************************************)
StagingRoot == <<>>

StageFiles == { <<"x">>, <<"d", "y">>, <<"d", "e", "z">>, <<"d", "e", "w">> }

\* path.dirname
dirname(path) == SubSeq(path, 1, Len(path) - 1)

RECURSIVE ancestors(_)
ancestors(path) ==
    IF dirname(path) = StagingRoot THEN {}
    ELSE {dirname(path)} \cup ancestors(dirname(path))

\* fs.readdir(dir) of the staging directory
readdirStaged(p, dir) == { e \in p.files \cup p.dirs : dirname(e) = dir }

InitClean ==
    /\ incl = InclIdle
    /\ sys = SysIdle
    /\ \E files \in (SUBSET StageFiles) \ {{}}, filePath \in StageFiles :
          pk = [op |-> "clean", files |-> files,
                dirs |-> UNION { ancestors(f) : f \in files },
                rootExists |-> TRUE, change |-> filePath, pc |-> "pathExists",
                cleanup |-> [pc |-> "idle", dir |-> StagingRoot],
                publish |-> "waiting",
                target |-> [files |-> {}, dirs |-> {}]]

\* recursivelyRemoveDirIfEmpty(dir, outDir) up to its first await
recursivelyRemoveDirIfEmpty(p, dir) ==
    IF dir = StagingRoot THEN [p EXCEPT !.cleanup = [pc |-> "done", dir |-> dir]]
    ELSE [p EXCEPT !.cleanup = [pc |-> "readdir", dir |-> dir]]

\* applyFileChange of a remove: fs.pathExists(destPath) answered
PathExists ==
    /\ pk.op = "clean" /\ pk.pc = "pathExists"
    /\ pk' = [pk EXCEPT !.pc = IF pk.change \in pk.files THEN "rm" ELSE "returned"]
    /\ UNCHANGED <<incl, sys>>

\* fs.rm(destPath) completed; the cleanup is started and applyFileChange returns
RmDone ==
    /\ pk.op = "clean" /\ pk.pc = "rm"
    /\ pk' = recursivelyRemoveDirIfEmpty(
                 [pk EXCEPT !.pc = "returned", !.files = @ \ {pk.change}],
                 dirname(pk.change))
    /\ UNCHANGED <<incl, sys>>

\* the cleanup's fs.readdir(dir) answered
CleanReaddirDone ==
    /\ pk.op = "clean" /\ pk.cleanup.pc = "readdir"
    /\ pk' = IF readdirStaged(pk, pk.cleanup.dir) # {}
             THEN [pk EXCEPT !.cleanup.pc = "done"]
             ELSE [pk EXCEPT !.cleanup.pc = "rmdir"]
    /\ UNCHANGED <<incl, sys>>

\* the cleanup's fs.rmdir(dir) completed; it goes on with the parent
CleanRmdirDone ==
    /\ pk.op = "clean" /\ pk.cleanup.pc = "rmdir"
    /\ pk' = recursivelyRemoveDirIfEmpty(
                 [pk EXCEPT !.dirs = @ \ {pk.cleanup.dir}],
                 dirname(pk.cleanup.dir))
    /\ UNCHANGED <<incl, sys>>

\* Promise.all(fileProcessingPromises) resolved; copyOutputToTargetDirs
\* removes the target directory and starts fs.copy(outDir, targetDir)
PublishStart ==
    /\ pk.op = "clean" /\ pk.pc = "returned" /\ pk.publish = "waiting"
    /\ pk' = [pk EXCEPT !.publish = "copying"]
    /\ UNCHANGED <<incl, sys>>

\* fs.copy read the staging directory and wrote it to the target directory
PublishCopied ==
    /\ pk.op = "clean" /\ pk.publish = "copying"
    /\ pk' = [pk EXCEPT !.publish = "done",
                        !.target = [files |-> pk.files, dirs |-> pk.dirs]]
    /\ UNCHANGED <<incl, sys>>

NextClean ==
    \/ PathExists \/ RmDone \/ CleanReaddirDone \/ CleanRmdirDone
    \/ PublishStart \/ PublishCopied

SpecClean == InitClean /\ [][NextClean]_vars

\* C29: when the publish step copies the staging directory, the cleanup that
\* followed the removal has completed: no emptied directory is left in
\* staging or published, and the staging root still exists.
C29_CleanupDoneBeforePublish ==
    (pk.op = "clean" /\ pk.publish # "waiting") =>
        /\ pk.cleanup.pc \in {"idle", "done"}
        /\ pk.rootExists
        /\ \A d \in pk.target.dirs : \E f \in pk.target.files : d \in ancestors(f)

(***************************************************************************)
(* SpecEvents: watch mode of a system with one pack and no archives, in    *)
(* which events of two different paths arrive.                             *)
(***************************************************************************)
EventPathsWide == { "a.json", "d/b.png" }

InitEvents ==
    /\ incl = InclIdle
    /\ pk = PkIdle
    /\ sys = NewSystem([watch |-> TRUE, packs |-> {"bp"}, archives |-> 0, scripts |-> FALSE])

\* the watcher reports a change of one of the two paths
FileEventWide ==
    \E filePath \in EventPathsWide :
        /\ sys.watcher = "open"
        /\ sys' = onFileChange(sys, filePath)
        /\ UNCHANGED <<incl, pk>>

NextEvents ==
    \/ RunAndClose \/ Close \/ CleanupDone
    \/ EnsureDirDone \/ DirDone \/ OpDone \/ OpFail
    \/ PublishDone
    \/ WatcherClosed \/ FileEventWide \/ DebounceFire \/ PollTick

SpecEvents == InitEvents /\ [][NextEvents]_vars

\* the rebuild attempt a ends successfully in this step
endsOk(a) ==
    /\ sys.attempts[a].pc # "ended"
    /\ sys'.attempts[a].pc = "ended"
    /\ sys'.attempts[a].outcome.name = "ok"
    /\ sys.attempts[a].owner # 0

\* C30: no watch event is lost: a path leaves the accumulated set only when
\* a rebuild attempt whose scope contained the path completes successfully,
\* and a path that arrived since the last rebuild request is still in the set
\* when the next rebuild request is made.
C30_NoWatchEventLost ==
    [][/\ \A f \in sys.changedFiles \ sys'.changedFiles :
             \E a \in Attempts : endsOk(a) /\ f \in sys.attempts[a].limit.paths
       /\ Len(sys'.rebuilds) > Len(sys.rebuilds) => sys.burst \subseteq sys.changedFiles]_vars

\* C31: an attempt whose token was signalled before it ended never ends as a
\* success: from the signal on it does not end with outcome ok, no pack
\* cache is updated by it, and its end does not clear the changed-path set.
C31_SignalledAttemptNeverSucceeds ==
    [][\A a \in Attempts :
          (sys.attempts[a].aborted /\ sys.attempts[a].pc # "ended") =>
              /\ sys'.attempts[a].outcome.name # "ok"
              /\ \A p \in sys.cfg.packs : sys'.cache[p] = a => sys.cache[p] = a
              /\ sys'.attempts[a].pc = "ended" => sys.changedFiles \subseteq sys'.changedFiles]_vars

\* C32: distinct included source files of one pack map to distinct staged
\* paths, so no two file changes of one build write or delete the same
\* staged file.
C32_DistinctStagedPaths ==
    pk.last.op = "build" =>
        \A i, j \in 1..Len(pk.last.changes) :
            getDestPath(pk.last.changes[i].filePath) = getDestPath(pk.last.changes[j].filePath)
                => i = j

\* C33: at most one build() invocation is between its start and its finally
\* block at any time: the current-attempt controller is that of the single
\* active attempt, it is undefined iff no attempt is active, and it is
\* cleared only by the end of the attempt that created it.
C33_SingleActiveAttempt ==
    [][/\ \A a \in 1..Len(sys'.attempts) :
             sys'.attempts[a].pc # "ended" <=> sys'.currentController = a
       /\ (sys.currentController # 0 /\ sys'.currentController # sys.currentController) =>
             /\ sys'.currentController = 0
             /\ sys'.attempts[sys.currentController].pc = "ended"]_vars

\* an attempt is active while a pack build of an earlier attempt, which
\* ended when its other pack build rejected, is still running
C33_Witness ==
    \E a \in Attempts : \E b \in 1..(a - 1) :
        /\ sys.currentController = a
        /\ sys.attempts[a].pc # "ended"
        /\ sys.attempts[b].pc = "ended"
        /\ \E p \in sys.cfg.packs : sys.attempts[b].packs[p].pc \notin {"resolved", "rejected"}

(***************************************************************************)
(* SpecRebuilds: watch mode of a system with one pack and no archives, in  *)
(* which up to MaxCalls rebuild() calls are made for events of one path.   *)
(***************************************************************************)
MaxCalls == 4

\* the debounce wait elapsed: the debounced function calls rebuild; the call
\* records in `seen` the attempt that was current when it was made
DebounceFireMore ==
    /\ sys.debounce.timer
    /\ Len(sys.rebuilds) < MaxCalls
    /\ sys' = [rebuild([sys EXCEPT !.debounce.timer = FALSE]) EXCEPT
                  !.rebuilds[Len(sys.rebuilds) + 1].seen = sys.currentController]
    /\ UNCHANGED <<incl, pk>>

NextRebuilds ==
    \/ RunAndClose \/ Close \/ CleanupDone
    \/ EnsureDirDone \/ DirDone \/ OpDone \/ OpFail
    \/ PublishDone
    \/ WatcherClosed \/ FileEvent \/ DebounceFireMore \/ PollTick

SpecRebuilds == InitEvents /\ [][NextRebuilds]_vars

\* a rebuild() call returns early in this step, on a system that is not closed
returnsEarly ==
    /\ Len(sys'.rebuilds) > Len(sys.rebuilds)
    /\ sys'.rebuilds[Len(sys'.rebuilds)].pc = "early"
    /\ ~sys.isClosed

MaxOthers == 2

NoAttempt == [pc |-> "none", aborted |-> FALSE, scope |-> {}]

PollStages == <<"ensureDir", "dir", "publish">>

\* build(new Set(limitCheckPaths)) up to its first await
startAttempt(p) ==
    [p EXCEPT !.controller = [pc |-> PollStages[1], aborted |-> FALSE, scope |-> p.changedFiles],
              !.timer = IF @ = "late" THEN "armed" ELSE @]

InitPoll ==
    /\ incl = InclIdle
    /\ sys = SysIdle
    /\ \E stage \in 1..Len(PollStages), scope \in (SUBSET EventPathsWide) \ {{}} :
          pk = [op |-> "poll",
                controller |-> [pc |-> PollStages[stage], aborted |-> TRUE, scope |-> scope],
                changedFiles |-> scope,
                timer |-> "off",
                waiting |-> "polling",
                others |-> 0]

\* onFileChange
PollFileEvent ==
    \E filePath \in EventPathsWide :
        /\ pk.op = "poll"
        /\ pk' = [pk EXCEPT !.changedFiles = @ \cup {filePath},
                            !.timer = IF /\ pk.controller = NoAttempt
                                         /\ (pk.waiting = "polling" \/ pk.others > 0)
                                      THEN "late" ELSE "armed"]
        /\ UNCHANGED <<incl, sys>>

\* the debounced function calls rebuild(): it returns early, cancels the
\* running attempt and polls, or starts an attempt at once
PollDebounce ==
    /\ pk.op = "poll" /\ pk.timer = "armed"
    /\ pk.controller # NoAttempt => (pk.controller.aborted \/ pk.others < MaxOthers)
    /\ pk' = IF pk.controller = NoAttempt THEN startAttempt([pk EXCEPT !.timer = "off"])
             ELSE IF pk.controller.aborted THEN [pk EXCEPT !.timer = "off"]
             ELSE [pk EXCEPT !.timer = "off", !.controller.aborted = TRUE, !.others = @ + 1]
    /\ UNCHANGED <<incl, sys>>

\* the pack builds of the running attempt go on, or reject at a check of the
\* signalled token
AttemptAdvance ==
    /\ pk.op = "poll"
    /\ pk.controller.pc \in {"ensureDir", "dir"}
    /\ pk' = IF pk.controller.aborted THEN [pk EXCEPT !.controller = NoAttempt]
             ELSE [pk EXCEPT !.controller.pc = IF @ = "ensureDir" THEN "dir" ELSE "publish"]
    /\ UNCHANGED <<incl, sys>>

\* buildPacks resolved: build() throws if the token is signalled, else it
\* returns and rebuild() clears the changed-path set
AttemptEnds ==
    /\ pk.op = "poll"
    /\ pk.controller.pc = "publish"
    /\ pk' = [pk EXCEPT !.controller = NoAttempt,
                        !.changedFiles = IF pk.controller.aborted THEN @ ELSE {}]
    /\ UNCHANGED <<incl, sys>>

\* a tick of W's setInterval that finds _currentController undefined
PollTickW ==
    /\ pk.op = "poll"
    /\ pk.waiting = "polling"
    /\ pk.controller = NoAttempt
    /\ pk' = startAttempt([pk EXCEPT !.waiting = "started"])
    /\ UNCHANGED <<incl, sys>>

\* the same tick of another polling rebuild() call
PollTickOther ==
    /\ pk.op = "poll"
    /\ pk.others > 0
    /\ pk.controller = NoAttempt
    /\ pk' = startAttempt([pk EXCEPT !.others = @ - 1])
    /\ UNCHANGED <<incl, sys>>

NextPoll ==
    \/ PollFileEvent \/ PollDebounce \/ AttemptAdvance \/ AttemptEnds
    \/ PollTickW \/ PollTickOther

\* timers fire and pending I/O completes; a poll tick acts only if it finds
\* _currentController undefined when it runs
FairnessPoll ==
    /\ WF_vars(PollDebounce) /\ WF_vars(AttemptAdvance) /\ WF_vars(AttemptEnds)
    /\ WF_vars(PollTickW) /\ WF_vars(PollTickOther)

SpecPoll == InitPoll /\ [][NextPoll]_vars /\ FairnessPoll

\* C35: a rebuild() call that cancelled the in-flight attempt and is polling
\* eventually starts its replacement attempt, also when other rebuild()
\* calls keep starting attempts between its poll ticks.
C35_PollingCallEventuallyStarts ==
    (pk.op = "poll" /\ pk.waiting = "polling") ~> (pk.waiting = "started")

(***************************************************************************)
(* SpecWalkFail: one call of detectSourceTreeChanges, step by step as in   *)
(* SpecWalk, with a token that is never signalled and with readdir and     *)
(* stat calls that can fail.                                               *)
(***************************************************************************)
\* fs.readdir(dir) rejected: the catch block logs and the loop goes on
readdirFail(p) == loopHead(p)

\* the fs.stat of an entry rejected: Promise.all(promises) rejects at once,
\* the catch block logs and the loop goes on; the entries of the directory
\* still being handled are taken to complete after the function returned
statFail(p, e) == loopHead([p EXCEPT !.statting = {}, !.checking = {}])

\* the fs.stat inside checkFileChanges rejected: its catch block logs
checkFail(p, e) == entryHandled([p EXCEPT !.checking = @ \ {e}])

ReaddirFail ==
    /\ pk.pc = "readdir"
    /\ pk' = readdirFail(pk)
    /\ UNCHANGED <<incl, sys>>

StatFail ==
    \E e \in pk.statting :
        /\ pk.pc = "entries"
        /\ pk' = statFail(pk, e)
        /\ UNCHANGED <<incl, sys>>

CheckFail ==
    \E e \in pk.checking :
        /\ pk.pc = "entries"
        /\ pk' = checkFail(pk, e)
        /\ UNCHANGED <<incl, sys>>

NextWalkFail ==
    \/ WalkEnter \/ ReaddirDone \/ StatDone \/ CheckDone
    \/ ReaddirFail \/ StatFail \/ CheckFail

SpecWalkFail == InitWalk /\ [][NextWalkFail]_vars

\* C36: a failure to read a directory or to stat a file during diffing never
\* produces a remove change for a cached file that still exists on disk.
C36_FailureYieldsNoRemove ==
    (pk.op = "walk" /\ pk.pc = "returned") =>
        \A i \in 1..Len(pk.changes) :
            pk.changes[i].type = "remove" => pk.disk[pk.changes[i].filePath] = 0

(***************************************************************************)
(* SpecClose: a system with one pack on which close() is called again      *)
(* after it was closed, and whose temporary-directory cleanup can fail.    *)
(* pk counts the close() calls made on the closed system.                  *)
(***************************************************************************)
MaxCloseCalls == 2

InitClose ==
    /\ incl = InclIdle
    /\ pk = [op |-> "close", calls |-> 0]
    /\ \E w \in BOOLEAN :
          sys = NewSystem([watch |-> w, packs |-> {"bp"}, archives |-> 0, scripts |-> FALSE])

\* tempDir.cleanup() rejected: the catch block of close() logs, close()
\* returns and a runAndClose awaiting it goes on
cleanupFail(s) ==
    LET s1 == [s EXCEPT !.cleanup = "failed"]
    IN  IF s.run.pc = "closing"
        THEN [s1 EXCEPT !.run = Finished(s.run.then, s.run.error)]
        ELSE s1

\* close() is called on a system that is already closed
CloseAgain ==
    /\ sys.isClosed
    /\ pk.calls < MaxCloseCalls
    /\ sys' = close(sys)
    /\ pk' = [pk EXCEPT !.calls = @ + 1]
    /\ UNCHANGED incl

CleanupFail ==
    /\ sys.cleanup = "pending"
    /\ sys' = cleanupFail(sys)
    /\ UNCHANGED <<incl, pk>>

NextClose ==
    \/ RunAndClose \/ Close \/ CloseAgain \/ CleanupDone \/ CleanupFail
    \/ EnsureDirDone \/ DirDone \/ OpDone \/ OpFail \/ PublishDone
    \/ WatcherClosed \/ FileEvent \/ DebounceFire \/ PollTick

SpecClose == InitClose /\ [][NextClose]_vars

\* C37: close() is idempotent: a call on a closed system signals no token,
\* does not call the watch-close callback, does not run the cleanup again
\* and changes nothing else; and a failed cleanup does not make close()
\* throw: the runAndClose awaiting it ends as it would have.
C37_CloseIdempotent ==
    [][/\ pk'.calls > pk.calls => sys' = sys
       /\ (sys.cleanup = "pending" /\ sys'.cleanup = "failed" /\ sys.run.pc = "closing") =>
             sys'.run = Finished(sys.run.then, sys.run.error)]_vars

\* close() was called again while the cleanup of the first call was
\* pending, an attempt was still running and the watcher was closing
C37_Witness ==
    /\ pk.op = "close" /\ pk.calls > 0
    /\ sys.cleanup = "pending"
    /\ sys.watcher = "closing"
    /\ sys.currentController # 0

\* C38: a pack build whose diff yields no change changes nothing: the
\* staging directory, every target directory and the pack's cache are what
\* they were before the build.
C38_NoChangeBuildIsNoOp ==
    [][(pk'.last.op = "build" /\ pk'.last.changes = <<>>) =>
          /\ pk'.lastCache = pk.lastCache
          /\ pk'.staged = pk.staged
          /\ pk'.target = pk.target]_vars

\* a build found nothing to do on a pack that has a cache from an earlier
\* build and staged files
C38_Witness ==
    /\ pk.last.op = "build"
    /\ pk.last.changes = <<>>
    /\ pk.lastCache # <<>>
    /\ \E d \in PkDests : pk.staged[d] # NoContent

\* C39: runAndClose() on a system that is already closed throws an error and
\* does nothing else: it starts no build attempt, creates no watcher and
\* changes no file.
C39_RunOnClosedSystemThrows ==
    [][(sys.run.pc = "init" /\ sys'.run.pc # "init" /\ sys.isClosed) =>
          sys' = [sys EXCEPT !.run = Finished("threw", Failure("closed"))]]_vars

\* runAndClose() was called after close() and threw
C39_Witness ==
    /\ sys.isClosed
    /\ sys.run = Finished("threw", Failure("closed"))
    /\ sys.attempts = <<>>
    /\ sys.watcher = "none"


====
